---- MODULE Spec2Model ----
(***************************************************************************)
(* top_options_contracts.py: fetch an options chain for one ticker and     *)
(* expiry (get_options_chain), rank it (top_contracts) and print the top   *)
(* rows (main).  The market-data provider (yfinance) is the environment:   *)
(* what it returns, and whether it raises, is chosen nondeterministically. *)
(*                                                                         *)
(* A data frame is [columns |-> set of column names, rows |-> sequence of  *)
(* records].  A row carries the values the program reads or writes         *)
(* (contractSymbol, lastPrice, volume, openInterest, optionType, expiry,   *)
(* premiumPaid); strike, bid, impliedVolatility and inTheMoney are passed  *)
(* through untouched and are present only as column names.  Prices are     *)
(* whole ticks.  Text is a sequence of tokens, so that joining and         *)
(* prefixing are modelled by what they do.                                 *)
(***************************************************************************)
EXTENDS Integers, Sequences, FiniteSets, TLC

\* Most records (calls plus puts) the provider returns for one expiry.
MaxChain == 2
\* Largest --top-n; the smallest is -1.
MaxTopN == 2

CONTRACT_MULTIPLIER == 100

\* pandas' missing value (NaN) in a numeric column; outside every value drawn.
NaN == -999
\* Python's None for the optional --expiry.
None == "None"

Ticker == "SPY"
Expiries == {"2026-01-16", "2026-02-20", "2026-03-20"}
\* What tk.options can return (provider order), the empty tuple included.
ExpiryLists == {<<>>, <<"2026-01-16", "2026-02-20">>}
\* What --expiry can be: omitted, the empty string, or a date.
ExpiryArgs == {None, ""} \cup Expiries
TopNs == (-1)..MaxTopN

Volumes == {NaN, 0, 1}
OpenInterests == {NaN, 1}
Prices == {NaN, -1, 1}

\* The columns the provider's frames have when complete.
ProviderColumns ==
    {"contractSymbol", "strike", "lastPrice", "bid", "volume", "openInterest",
     "impliedVolatility", "inTheMoney"}
\* The provider's frames: complete, or lacking a column.
Schemas ==
    {ProviderColumns, ProviderColumns \ {"volume"}, ProviderColumns \ {"openInterest"}}

Range(s) == {s[i] : i \in 1..Len(s)}
Min(a, b) == IF a <= b THEN a ELSE b
Max(a, b) == IF a >= b THEN a ELSE b
Restrict(f, S) == [c \in (DOMAIN f) \cap S |-> f[c]]

\* What the provider can put in a numeric column.
ColumnValues(column) ==
    CASE column = "lastPrice" -> Prices
      [] column = "volume" -> Volumes
      [] column = "openInterest" -> OpenInterests

\* The numeric values of one record under a schema.
RawValues(cols) ==
    LET numeric == {"lastPrice", "volume", "openInterest"} \cap cols IN
    {v \in [numeric -> Prices \cup Volumes \cup OpenInterests] :
        \A c \in numeric : v[c] \in ColumnValues(c)}

\* Every frame of n records the provider can return for one side; the i-th
\* contract of a side has its own symbol.
RawSide(side, n, cols) ==
    {[i \in 1..n |-> vs[i] @@ [contractSymbol |-> <<side, i>>]] :
        vs \in [1..n -> RawValues(cols)]}

Unbound == [columns |-> {"<unbound>"}, rows |-> <<>>]
NoChain == [columns |-> {"<unbound>"}, calls |-> <<>>, puts |-> <<>>]
NoExc == [type |-> "None", msg |-> <<>>]

----
\* get_options_chain

HasNoExpiriesNever(expiries) == FALSE
\* line 26: not expiries
HasNoExpiries(expiries) == Len(expiries) = 0

NoExpiriesError(ticker) ==
    [type |-> "ValueError",
     msg |-> <<"No option expiries found for ticker '", ticker, "'.">>]

\* Python truthiness of the expiry argument: None and "" are falsy.
Truthy(expiry) == expiry # None /\ expiry # ""

\* line 29: expiry or expiries[0]
SelectedExpiry(expiry, expiries) == IF Truthy(expiry) THEN expiry ELSE expiries[1]

RECURSIVE Join(_, _)
\* sep.join(parts), as tokens
Join(parts, sep) ==
    IF parts = <<>> THEN <<>>
    ELSE IF Len(parts) = 1 THEN <<parts[1]>>
    ELSE <<parts[1], sep>> \o Join(Tail(parts), sep)

AvailableFirstOnly(expiries) == <<expiries[1]>>
\* line 31
Available(expiries) == Join(expiries, ", ")

InvalidExpiryError(selected, ticker, expiries) ==
    [type |-> "ValueError",
     msg |-> <<"Expiry '", selected, "' is not available for '", ticker, "'. ",
               "Available expiries: ">> \o Available(expiries)]

KeyError(column) == [type |-> "KeyError", msg |-> <<"'", column, "'">>]
ProviderError(op) == [type |-> "ProviderError", msg |-> <<"provider failed: ", op>>]

\* The provider requests one statement makes, as log entries.
OptionsRequest(raised, returned) ==
    [op |-> "options", expiry |-> None, raised |-> raised, returned |-> returned]
ChainRequest(expiry, raised) ==
    [op |-> "option_chain", expiry |-> expiry, raised |-> raised, returned |-> <<>>]

OptionChainCallsRetried(expiry, raised) ==
    IF raised THEN <<ChainRequest(expiry, TRUE), ChainRequest(expiry, TRUE)>>
    ELSE <<ChainRequest(expiry, FALSE)>>
\* line 37: one request, whatever its outcome
OptionChainCalls(expiry, raised) == <<ChainRequest(expiry, raised)>>

\* lines 41-42
Tag(rows, optionType) ==
    [i \in 1..Len(rows) |-> rows[i] @@ [optionType |-> optionType]]

ConcatPutsFirst(calls, puts) == puts \o calls
\* line 44: pd.concat([calls, puts], ignore_index=True)
Concat(calls, puts) == calls \o puts

\* line 45
WithExpiry(rows, expiry) == [i \in 1..Len(rows) |-> rows[i] @@ [expiry |-> expiry]]

\* .fillna(0)
FillNa(x) == IF x = NaN THEN 0 ELSE x

PremiumPaidNoFill(r) ==
    IF r.volume = NaN \/ r.lastPrice = NaN THEN NaN
    ELSE r.volume * r.lastPrice * CONTRACT_MULTIPLIER
\* lines 48-52
PremiumPaid(r) == FillNa(r.volume) * FillNa(r.lastPrice) * CONTRACT_MULTIPLIER

WithPremium(rows) ==
    [i \in 1..Len(rows) |-> rows[i] @@ [premiumPaid |-> PremiumPaid(rows[i])]]

\* lines 38-54 on a chain whose frames have volume and lastPrice
ChainFrame(chain, expiry) ==
    [columns |-> chain.columns \cup {"optionType", "expiry", "premiumPaid"},
     rows |-> WithPremium(WithExpiry(Concat(Tag(chain.calls, "call"),
                                            Tag(chain.puts, "put")), expiry))]

----
\* top_contracts

SortKeys == <<"volume", "openInterest", "premiumPaid">>

\* One key, descending, NaN last: a sorts strictly ahead of b.
KeyBefore(a, b) == a # NaN /\ (b = NaN \/ a > b)

RECURSIVE LexBefore(_, _, _)
LexBefore(r1, r2, k) ==
    IF k > Len(SortKeys) THEN FALSE
    ELSE LET c == SortKeys[k] IN
         IF KeyBefore(r1[c], r2[c]) THEN TRUE
         ELSE IF KeyBefore(r2[c], r1[c]) THEN FALSE
         ELSE LexBefore(r1, r2, k + 1)

RowBefore(r1, r2) == LexBefore(r1, r2, 1)

RECURSIVE Insert(_, _)
Insert(sorted, x) ==
    IF sorted = <<>> THEN <<x>>
    ELSE IF RowBefore(x, Head(sorted)) THEN <<x>> \o sorted
    ELSE <<Head(sorted)>> \o Insert(Tail(sorted), x)

RECURSIVE SortValues(_)
\* lines 60-63: stable, rows with equal keys keep their input order
SortValues(rows) ==
    IF rows = <<>> THEN <<>>
    ELSE Insert(SortValues(SubSeq(rows, 1, Len(rows) - 1)), rows[Len(rows)])

\* line 64: DataFrame.head(n); a negative n drops the last -n rows
HeadRows(rows, n) ==
    IF n >= 0 THEN SubSeq(rows, 1, Min(n, Len(rows)))
    ELSE SubSeq(rows, 1, Max(Len(rows) + n, 0))

\* lines 68-79
Cols ==
    <<"contractSymbol", "optionType", "expiry", "strike", "lastPrice", "volume",
      "openInterest", "premiumPaid", "impliedVolatility", "inTheMoney">>

\* line 81
Project(rows, cols) == [i \in 1..Len(rows) |-> Restrict(rows[i], Range(cols))]

\* The columns top_contracts needs and the frame lacks.
MissingColumns(df) == (Range(SortKeys) \cup Range(Cols)) \ df.columns

TopContractsFrame(df, top_n) ==
    [columns |-> Range(Cols), rows |-> Project(HeadRows(SortValues(df.rows), top_n), Cols)]

----
\* main

ErrorLineNoPrefix(e) == e.msg
\* line 108
ErrorLine(e) == <<"Error: ">> \o e.msg

NoContractsLine == <<"No option contracts returned.">>

\* The values of one row, in column order (pass-through columns left out).
RowLine(r) ==
    LET cs == SelectSeq(Cols, LAMBDA c : c \in DOMAIN r) IN [i \in 1..Len(cs) |-> r[cs[i]]]

\* line 116: result.to_string(index=False), header then one line per row
TableText(frame) == <<Cols>> \o [i \in 1..Len(frame.rows) |-> RowLine(frame.rows[i])]

----
VARIABLES
    args,             \* parse_args(): [ticker, expiry, top_n]
    pc,               \* the statement main is at
    expiries,         \* get_options_chain: list(tk.options)
    selected_expiry,  \* get_options_chain: selected_expiry
    chain,            \* get_options_chain: what tk.option_chain returned
    df,               \* main: the frame get_options_chain returned
    result,           \* main: the frame top_contracts returned
    exc,              \* the exception raised inside main's try block
    stdout,           \* lines printed to standard output
    stderr,           \* lines printed to the error stream
    exit,             \* <<>> while main runs, then <<its return value>>
    log               \* every request made to the provider, in order

vars ==
    <<args, pc, expiries, selected_expiry, chain, df, result, exc, stdout, stderr, exit, log>>

Args == [ticker : {Ticker}, expiry : ExpiryArgs, top_n : TopNs]

\* line 102: the arguments are parsed; main is about to call get_options_chain
Init ==
    /\ args \in Args
    /\ pc = "list_expiries"
    /\ expiries = <<>>
    /\ selected_expiry = None
    /\ chain = NoChain
    /\ df = Unbound
    /\ result = Unbound
    /\ exc = NoExc
    /\ stdout = <<>>
    /\ stderr = <<>>
    /\ exit = <<>>
    /\ log = <<>>

\* lines 23-24: the provider lists the expiries
ListExpiries ==
    /\ pc = "list_expiries"
    /\ \E l \in ExpiryLists :
        /\ expiries' = l
        /\ log' = Append(log, OptionsRequest(FALSE, l))
    /\ pc' = "check_expiries"
    /\ UNCHANGED <<args, selected_expiry, chain, df, result, exc, stdout, stderr, exit>>

\* lines 23-24: the provider raises instead
ListExpiriesRaises ==
    /\ pc = "list_expiries"
    /\ log' = Append(log, OptionsRequest(TRUE, <<>>))
    /\ exc' = ProviderError("options")
    /\ pc' = "except"
    /\ UNCHANGED <<args, expiries, selected_expiry, chain, df, result, stdout, stderr, exit>>

\* lines 26-27
RaiseNoExpiries ==
    /\ pc = "check_expiries"
    /\ HasNoExpiries(expiries)
    /\ exc' = NoExpiriesError(args.ticker)
    /\ pc' = "except"
    /\ UNCHANGED <<args, expiries, selected_expiry, chain, df, result, stdout, stderr, exit, log>>

\* expiries[0] is evaluated only for a falsy expiry, and needs an element
CanSelect == Truthy(args.expiry) \/ Len(expiries) > 0

\* lines 29-30, the selected expiry is available
SelectExpiry ==
    /\ pc = "check_expiries"
    /\ ~HasNoExpiries(expiries)
    /\ CanSelect
    /\ SelectedExpiry(args.expiry, expiries) \in Range(expiries)
    /\ selected_expiry' = SelectedExpiry(args.expiry, expiries)
    /\ pc' = "option_chain"
    /\ UNCHANGED <<args, expiries, chain, df, result, exc, stdout, stderr, exit, log>>

\* lines 29-35, the selected expiry is not available
RaiseInvalidExpiry ==
    /\ pc = "check_expiries"
    /\ ~HasNoExpiries(expiries)
    /\ IF CanSelect
       THEN /\ SelectedExpiry(args.expiry, expiries) \notin Range(expiries)
            /\ selected_expiry' = SelectedExpiry(args.expiry, expiries)
            /\ exc' = InvalidExpiryError(selected_expiry', args.ticker, expiries)
       ELSE /\ selected_expiry' = selected_expiry
            /\ exc' = [type |-> "IndexError", msg |-> <<"list index out of range">>]
    /\ pc' = "except"
    /\ UNCHANGED <<args, expiries, chain, df, result, stdout, stderr, exit, log>>

\* lines 37-54: the provider returns the chain, the frame is built and returned
FetchChain ==
    /\ pc = "option_chain"
    /\ \E cols \in Schemas, nc \in 0..MaxChain :
       \E np \in 0..(MaxChain - nc) :
       \E calls \in RawSide("C", nc, cols), puts \in RawSide("P", np, cols) :
        /\ {"volume", "lastPrice"} \subseteq cols
        /\ chain' = [columns |-> cols, calls |-> calls, puts |-> puts]
        /\ df' = ChainFrame(chain', selected_expiry)
    /\ log' = log \o OptionChainCalls(selected_expiry, FALSE)
    /\ pc' = "top_contracts"
    /\ UNCHANGED <<args, expiries, selected_expiry, result, exc, stdout, stderr, exit>>

\* lines 37-49: the provider returns frames without a volume column
FetchChainKeyError ==
    /\ pc = "option_chain"
    /\ \E cols \in Schemas, nc \in 0..MaxChain :
       \E np \in 0..(MaxChain - nc) :
       \E calls \in RawSide("C", nc, cols), puts \in RawSide("P", np, cols) :
        /\ ~({"volume", "lastPrice"} \subseteq cols)
        /\ chain' = [columns |-> cols, calls |-> calls, puts |-> puts]
        /\ exc' = KeyError(CHOOSE k \in {"volume", "lastPrice"} : k \notin cols)
    /\ log' = log \o OptionChainCalls(selected_expiry, FALSE)
    /\ pc' = "except"
    /\ UNCHANGED <<args, expiries, selected_expiry, df, result, stdout, stderr, exit>>

\* line 37: the provider raises instead
OptionChainRaises ==
    /\ pc = "option_chain"
    /\ log' = log \o OptionChainCalls(selected_expiry, TRUE)
    /\ exc' = ProviderError("option_chain")
    /\ pc' = "except"
    /\ UNCHANGED <<args, expiries, selected_expiry, chain, df, result, stdout, stderr, exit>>

\* line 106, lines 57-82
TopContracts ==
    /\ pc = "top_contracts"
    /\ MissingColumns(df) = {}
    /\ result' = TopContractsFrame(df, args.top_n)
    /\ pc' = "report"
    /\ UNCHANGED <<args, expiries, selected_expiry, chain, df, exc, stdout, stderr, exit, log>>

\* line 106, lines 60-81 on a frame that lacks a column
TopContractsKeyError ==
    /\ pc = "top_contracts"
    /\ MissingColumns(df) # {}
    /\ exc' = KeyError(CHOOSE k \in MissingColumns(df) : TRUE)
    /\ pc' = "except"
    /\ UNCHANGED <<args, expiries, selected_expiry, chain, df, result, stdout, stderr, exit, log>>

\* lines 107-109
ReportError ==
    /\ pc = "except"
    /\ stderr' = Append(stderr, ErrorLine(exc))
    /\ exit' = <<1>>
    /\ pc' = "done"
    /\ UNCHANGED <<args, expiries, selected_expiry, chain, df, result, exc, stdout, log>>

\* lines 111-113
ReportEmpty ==
    /\ pc = "report"
    /\ result.rows = <<>>
    /\ stdout' = Append(stdout, NoContractsLine)
    /\ exit' = <<0>>
    /\ pc' = "done"
    /\ UNCHANGED <<args, expiries, selected_expiry, chain, df, result, exc, stderr, log>>

\* lines 115-117
ReportTable ==
    /\ pc = "report"
    /\ result.rows # <<>>
    /\ stdout' = stdout \o TableText(result)
    /\ exit' = <<0>>
    /\ pc' = "done"
    /\ UNCHANGED <<args, expiries, selected_expiry, chain, df, result, exc, stderr, log>>

Next ==
    \/ ListExpiries
    \/ ListExpiriesRaises
    \/ RaiseNoExpiries
    \/ SelectExpiry
    \/ RaiseInvalidExpiry
    \/ FetchChain
    \/ FetchChainKeyError
    \/ OptionChainRaises
    \/ TopContracts
    \/ TopContractsKeyError
    \/ ReportError
    \/ ReportEmpty
    \/ ReportTable

Spec == Init /\ [][Next]_vars

----
\* Properties

\* The provider listed the expiries and the list was l.
OptionsReturned(l) ==
    \E i \in 1..Len(log) : log[i].op = "options" /\ ~log[i].raised /\ log[i].returned = l

ChainRequested == \E i \in 1..Len(log) : log[i].op = "option_chain"

\* get_options_chain is past its expiry checks (lines 26-35).
PastChecks == pc \notin {"list_expiries", "check_expiries"}

\* An absent count read as 0.
AsZero(x) == IF x = NaN THEN 0 ELSE x

\* (volume, openInterest, premiumPaid) of r1 >= that of r2, lexicographically.
TripleGeq(r1, r2) ==
    LET v1 == AsZero(r1.volume)
        v2 == AsZero(r2.volume)
        o1 == AsZero(r1.openInterest)
        o2 == AsZero(r2.openInterest)
    IN \/ v1 > v2
       \/ v1 = v2 /\ o1 > o2
       \/ v1 = v2 /\ o1 = o2 /\ r1.premiumPaid >= r2.premiumPaid

\* C1: in the frame top_contracts returns, a row ahead of another has a key
\* triple (volume, openInterest, premiumPaid), absent counts read as 0, that is
\* lexicographically greater than or equal to the other's.
C1_RankedDescending ==
    result # Unbound =>
        \A i \in 1..Len(result.rows) : \A j \in (i + 1)..Len(result.rows) :
            TripleGeq(result.rows[i], result.rows[j])

\* C2: for a top_n of zero or less top_contracts returns no rows.
C2_NonPositiveTopNEmpty ==
    (result # Unbound /\ args.top_n <= 0) => result.rows = <<>>

\* C3: top_contracts returns min(top_n, number of input rows) rows (none for a
\* top_n below zero), each of them one of the input rows, none of them twice.
C3_TruncatedSubset ==
    result # Unbound =>
        /\ Len(result.rows) = Min(Max(args.top_n, 0), Len(df.rows))
        /\ \A i \in 1..Len(result.rows) :
               \E k \in 1..Len(df.rows) :
                   Restrict(df.rows[k], DOMAIN result.rows[i]) = result.rows[i]
        /\ \A i, j \in 1..Len(result.rows) :
               result.rows[i].contractSymbol = result.rows[j].contractSymbol => i = j

\* premiumPaid of a fetched row is volume * lastPrice * 100, an absent factor
\* read as 0.
PremiumAsSpecified(r) ==
    r.premiumPaid =
        (IF r.volume = NaN \/ r.lastPrice = NaN THEN 0 ELSE r.volume * r.lastPrice * 100)

\* C4 as stated: every fetched row has premiumPaid = volume * lastPrice * 100
\* with absent values read as 0, and premiumPaid >= 0 whatever the provider
\* returned.
C4_PremiumNeverNegative ==
    df # Unbound =>
        \A i \in 1..Len(df.rows) :
            PremiumAsSpecified(df.rows[i]) /\ df.rows[i].premiumPaid >= 0

\* C4: every fetched row has premiumPaid = volume * lastPrice * 100 with absent
\* values read as 0, and premiumPaid >= 0 for every row whose volume and
\* lastPrice are each absent or non-negative.
C4_PremiumPaid ==
    df # Unbound =>
        \A i \in 1..Len(df.rows) :
            LET r == df.rows[i] IN
            /\ PremiumAsSpecified(r)
            /\ ((r.volume = NaN \/ r.volume >= 0) /\ (r.lastPrice = NaN \/ r.lastPrice >= 0))
                   => r.premiumPaid >= 0

C4_Witness ==
    /\ df # Unbound
    /\ \E i \in 1..Len(df.rows) :
           df.rows[i].volume = NaN /\ df.rows[i].lastPrice = NaN /\ df.rows[i].premiumPaid = 0
    /\ \E i \in 1..Len(df.rows) :
           df.rows[i].volume = 1 /\ df.rows[i].lastPrice = 1 /\ df.rows[i].premiumPaid = 100

\* msg ends with the header token followed by every expiry of es, in order,
\* with ", " between neighbours.
ListsAllCommaJoined(msg, es) ==
    LET n == Len(es)
        k == Len(msg) - (2 * n - 1)
    IN /\ k >= 1
       /\ msg[k] = "Available expiries: "
       /\ \A i \in 1..n : msg[k + 2 * i - 1] = es[i]
       /\ \A i \in 1..(n - 1) : msg[k + 2 * i] = ", "

C6_NoExpiriesBeforeChain ==
    /\ (OptionsReturned(<<>>) /\ PastChecks)
           => /\ exc.type = "ValueError"
              /\ exc.msg = <<"No option expiries found for ticker '", args.ticker, "'.">>
    /\ \A i \in 1..Len(log) :
           log[i].op = "option_chain"
               => \E j \in 1..(i - 1) :
                      log[j].op = "options" /\ ~log[j].raised /\ log[j].returned # <<>>

C6_Witness ==
    /\ pc = "done"
    /\ OptionsReturned(<<>>)
    /\ args.expiry = "2026-01-16"
    /\ ~ChainRequested
    /\ exit = <<1>>

\* C7: with no expiry supplied the resolved expiry is the first available one;
\* with any expiry value supplied it is that value, which must be available or
\* the invalid-expiry error is raised; the chain is requested for the resolved
\* expiry and every fetched row carries it.
C7_ExpiryResolution ==
    \A l \in ExpiryLists :
        (OptionsReturned(l) /\ l # <<>> /\ PastChecks)
        => /\ args.expiry = None => selected_expiry = l[1]
           /\ args.expiry # None =>
                  /\ selected_expiry = args.expiry
                  /\ args.expiry \notin Range(l)
                         => exc.type = "ValueError" /\ ~ChainRequested
           /\ \A i \in 1..Len(log) :
                  log[i].op = "option_chain" => log[i].expiry = selected_expiry
           /\ df # Unbound =>
                  \A i \in 1..Len(df.rows) : df.rows[i].expiry = selected_expiry

\* C8: an error raised during fetch or ranking ends main with one "Error: "
\* line on the error stream, nothing on standard output and exit code 1; a run
\* without an error ends with exit code 0, having printed the line
\* "No option contracts returned." for an empty result and the table otherwise.
C8_ExitAndOutput ==
    /\ exc # NoExc => pc \in {"except", "done"}
    /\ pc # "done" => stdout = <<>> /\ stderr = <<>> /\ exit = <<>>
    /\ (pc = "done" /\ exc # NoExc)
           => /\ Len(stderr) = 1
              /\ stderr[1][1] = "Error: "
              /\ Len(stderr[1]) > 1
              /\ stdout = <<>>
              /\ exit = <<1>>
    /\ (pc = "done" /\ exc = NoExc)
           => /\ exit = <<0>>
              /\ stderr = <<>>
              /\ result # Unbound
              /\ IF result.rows = <<>>
                 THEN stdout = <<<<"No option contracts returned.">>>>
                 ELSE /\ Len(stdout) = 1 + Len(result.rows)
                      /\ stdout[1] = Cols
                      /\ \A i \in 1..Len(result.rows) :
                             stdout[i + 1][1] = result.rows[i].contractSymbol

C8_Witness ==
    /\ pc = "done"
    /\ df # Unbound
    /\ exc.type = "KeyError"
    /\ exit = <<1>>

\* C9: the frame get_options_chain returns is the provider's call records in
\* provider order followed by its put records in provider order, none dropped,
\* added or reordered, the former tagged call and the latter tagged put.
C9_CallsThenPuts ==
    df # Unbound =>
        LET nc == Len(chain.calls)
            np == Len(chain.puts)
        IN /\ Len(df.rows) = nc + np
           /\ \A i \in 1..nc :
                  /\ Restrict(df.rows[i], DOMAIN chain.calls[i]) = chain.calls[i]
                  /\ df.rows[i].optionType = "call"
           /\ \A i \in 1..np :
                  /\ Restrict(df.rows[nc + i], DOMAIN chain.puts[i]) = chain.puts[i]
                  /\ df.rows[nc + i].optionType = "put"

C9_Witness ==
    /\ df # Unbound
    /\ Len(chain.calls) = 1
    /\ Len(chain.puts) = 1
    /\ df.rows[2].optionType = "put"

\* C10: one run asks the provider for the expiries at most once and for the
\* chain at most once; a request that fails is the last one made, its failure
\* reaches main's handler, and no frame is returned.
C10_NoRetry ==
    /\ Cardinality({i \in 1..Len(log) : log[i].op = "options"}) <= 1
    /\ Cardinality({i \in 1..Len(log) : log[i].op = "option_chain"}) <= 1
    /\ \A i \in 1..Len(log) :
           log[i].raised
               => /\ i = Len(log)
                  /\ exc.type = "ProviderError"
                  /\ pc \in {"except", "done"}
                  /\ df = Unbound
                  /\ result = Unbound

C10_Witness ==
    /\ pc = "done"
    /\ \E i \in 1..Len(log) : log[i].op = "option_chain" /\ log[i].raised
    /\ exit = <<1>>

====
